---- MODULE Spec2Model ----
(***************************************************************************)
(* The team2 poker player (JsPlayer): a session object with two counters   *)
(* (round, win) and four hooks the game engine calls (start, bet, draw,    *)
(* end), wrapping the pure functions evaluateHand and decideDraw and the   *)
(* betting policy decideBetPoint.                                          *)
(*                                                                         *)
(* Numbers.  The strength evaluateHand returns is the double               *)
(* score + parseFloat("0.<ten decimal digits>").  It is modelled as the    *)
(* exact decimal [whole, frac]: the integer part and the sequence of       *)
(* fractional decimal digits.  A double carries 15 significant decimal     *)
(* digits and a strength has at most 3 + 10, so distinct decimals are      *)
(* distinct doubles in the same order.  The products pot * 0.5 and         *)
(* pot * 0.1 are compared with integers only; for every integer pot below  *)
(* 10^7 the double comparisons agree with the exact ones (2*x > pot,       *)
(* 10*x < pot), which is how they are written here.                        *)
(*                                                                         *)
(* Absent values.  A JavaScript value that may be undefined is modelled    *)
(* as an option: None (absent) or Some(v).                                 *)
(***************************************************************************)
EXTENDS Integers, Sequences, FiniteSets, TLC

None == <<>>
Some(v) == <<v>>
IsSome(o) == Len(o) = 1
Get(o) == o[1]

(***************************************************************************)
(* Cards and arrays                                                        *)
(***************************************************************************)
\* { suit: 'Hearts', number: 1 }: number is 1..13, 1 the ace
Card(s, n) == [suit |-> s, number |-> n]

\* Array.prototype.reverse
Reverse(s) == [i \in 1..Len(s) |-> s[Len(s) + 1 - i]]

RECURSIVE Insert(_, _)
Insert(x, s) ==
    IF s = <<>> THEN <<x>>
    ELSE IF x <= Head(s) THEN <<x>> \o s
    ELSE <<Head(s)>> \o Insert(x, Tail(s))

\* a sort that is left out: the array stays in the order given
SortAsc_Unsorted(s) == s

RECURSIVE SortAsc(_)
\* Array.prototype.sort((a, b) => a - b)
SortAsc(s) == IF s = <<>> THEN <<>> ELSE Insert(Head(s), SortAsc(Tail(s)))

\* Array.prototype.sort((a, b) => b - a)
SortDesc(s) == Reverse(SortAsc(s))

RECURSIVE Flatten(_)
\* Array.prototype.join('') of digit strings
Flatten(ss) == IF ss = <<>> THEN <<>> ELSE Head(ss) \o Flatten(Tail(ss))

\* const toRank = (card) => (card.number === 1 ? 14 : card.number)
toRank(card) == IF card.number = 1 THEN 14 ELSE card.number

\* cards.map(toRank)
Ranks(cards) == [i \in 1..Len(cards) |-> toRank(cards[i])]

\* the reduce that counts the cards of each rank: an object keyed by rank
RankCounts(ranks) ==
    [r \in {ranks[i] : i \in 1..Len(ranks)} |->
        Cardinality({i \in 1..Len(ranks) : ranks[i] = r})]

RECURSIVE KeysAsc(_)
\* Object.keys of an object with integer keys: ascending numeric order
KeysAsc(S) ==
    IF S = {} THEN <<>>
    ELSE LET m == CHOOSE x \in S : \A y \in S : x <= y
         IN <<m>> \o KeysAsc(S \ {m})

\* Object.values(counts)
ObjectValues(counts) == LET ks == KeysAsc(DOMAIN counts)
                        IN [i \in 1..Len(ks) |-> counts[ks[i]]]

\* a[i] === n for a zero-based index i: false when a[i] is undefined
ElemIs(a, i, n) == i + 1 <= Len(a) /\ a[i + 1] = n

\* String(r) for 0 <= r < 100, as its decimal digits
String(r) == IF r < 10 THEN <<r>> ELSE <<r \div 10, r % 10>>

\* a padding that is left out
padStart2_None(s) == s

\* s.padStart(2, '0')
padStart2(s) == IF Len(s) < 2 THEN <<0>> \o s ELSE s

(***************************************************************************)
(* Strengths: exact decimals whole + 0.frac                                *)
(***************************************************************************)
Strength(w, f) == [whole |-> w, frac |-> f]

\* the number 0 that evaluateHand returns for an absent or short hand
Zero == Strength(0, <<>>)

\* the i-th fractional digit; digits past the end are 0
Digit(x, i) == IF i <= Len(x.frac) THEN x.frac[i] ELSE 0

FracLen(x, y) == IF Len(x.frac) >= Len(y.frac) THEN Len(x.frac) ELSE Len(y.frac)

\* x === y as numbers
NumEq(x, y) ==
    /\ x.whole = y.whole
    /\ \A i \in 1..FracLen(x, y) : Digit(x, i) = Digit(y, i)

\* x < y as numbers (non-negative decimals whose digits are all in 0..9)
NumLess(x, y) ==
    \/ x.whole < y.whole
    \/ /\ x.whole = y.whole
       /\ \E i \in 1..FracLen(x, y) :
            /\ Digit(x, i) < Digit(y, i)
            /\ \A j \in 1..(i - 1) : Digit(x, j) = Digit(y, j)

\* x >= n for an integer n
AtLeast(x, n) == ~NumLess(x, Strength(n, <<>>))

(***************************************************************************)
(* evaluateHand                                                            *)
(***************************************************************************)
\* a chain whose first test takes any straight flush with an ace for royal
HandScore_RoyalAnyAce(isStraight, isFlush, ranks, countsValues) ==
    IF isStraight /\ isFlush
       /\ (\E i \in 1..Len(ranks) : ranks[i] = 14) THEN 900
    ELSE IF isStraight /\ isFlush THEN 800
    ELSE IF ElemIs(countsValues, 0, 4) THEN 700
    ELSE IF ElemIs(countsValues, 0, 3) /\ ElemIs(countsValues, 1, 2) THEN 600
    ELSE IF isFlush THEN 500
    ELSE IF isStraight THEN 400
    ELSE IF ElemIs(countsValues, 0, 3) THEN 300
    ELSE IF ElemIs(countsValues, 0, 2) /\ ElemIs(countsValues, 1, 2) THEN 200
    ELSE IF ElemIs(countsValues, 0, 2) THEN 100
    ELSE 0

\* the score chosen by the if / else-if chain
HandScore(isStraight, isFlush, ranks, countsValues) ==
    IF isStraight /\ isFlush
       /\ (\E i \in 1..Len(ranks) : ranks[i] = 14)
       /\ (\E i \in 1..Len(ranks) : ranks[i] = 13) THEN 900
    ELSE IF isStraight /\ isFlush THEN 800
    ELSE IF ElemIs(countsValues, 0, 4) THEN 700
    ELSE IF ElemIs(countsValues, 0, 3) /\ ElemIs(countsValues, 1, 2) THEN 600
    ELSE IF isFlush THEN 500
    ELSE IF isStraight THEN 400
    ELSE IF ElemIs(countsValues, 0, 3) THEN 300
    ELSE IF ElemIs(countsValues, 0, 2) /\ ElemIs(countsValues, 1, 2) THEN 200
    ELSE IF ElemIs(countsValues, 0, 2) THEN 100
    ELSE 0

\* a tie-breaker whose reverse is left out: the lowest rank comes first
TieBreaker_Ascending(ranks) ==
    Flatten([i \in 1..Len(ranks) |-> padStart2(String(ranks[i]))])

\* ranks.map((r) => String(r).padStart(2, '0')).reverse().join('')
TieBreaker(ranks) ==
    Flatten(Reverse([i \in 1..Len(ranks) |-> padStart2(String(ranks[i]))]))

\* cards: an option, None for an absent (undefined / null) hand
evaluateHand(cards) ==
    IF ~IsSome(cards) \/ Len(Get(cards)) # 5 THEN Zero
    ELSE
    LET cs == Get(cards)
        ranks == SortAsc(Ranks(cs))
        isFlush == \A i \in 1..Len(cs) : cs[i].suit = cs[1].suit
        isA5Straight == ranks = <<2, 3, 4, 5, 14>>
        isNormalStraight == \A i \in 2..Len(ranks) : ranks[i] = ranks[i - 1] + 1
        isStraight == isNormalStraight \/ isA5Straight
        countsValues == SortDesc(ObjectValues(RankCounts(ranks)))
        score == HandScore(isStraight, isFlush, ranks, countsValues)
    IN Strength(score, TieBreaker(ranks))

(***************************************************************************)
(* decideDraw                                                              *)
(***************************************************************************)
\* Object.keys(counts).find((rank) => counts[rank] === n): an option
FindRank(counts, n) ==
    LET ks == KeysAsc(DOMAIN counts)
        hit == {i \in 1..Len(ks) : counts[ks[i]] = n}
    IN IF hit = {} THEN None
       ELSE Some(ks[CHOOSE i \in hit : \A j \in hit : i <= j])

\* toRank(card) !== parseInt(target, 10); parseInt(undefined) is NaN
NotOfRank(card, target) == ~IsSome(target) \/ toRank(card) # Get(target)

\* a comparison written with the wrong operator
OfRank_Negated(card, target) == ~IsSome(target) \/ toRank(card) # Get(target)

\* toRank(card) === parseInt(target, 10)
OfRank(card, target) == IsSome(target) /\ toRank(card) = Get(target)

\* cards: a sequence (drawCard passes [] for an absent hand)
decideDraw(cards, handStrength) ==
    LET counts == RankCounts(Ranks(cards))
    IN
    IF AtLeast(handStrength, 400) THEN <<FALSE, FALSE, FALSE, FALSE, FALSE>>
    ELSE IF AtLeast(handStrength, 300) THEN
        LET threeRank == FindRank(counts, 3)
        IN [i \in 1..Len(cards) |-> NotOfRank(cards[i], threeRank)]
    ELSE IF AtLeast(handStrength, 200) THEN
        LET singleRank == FindRank(counts, 1)
        IN [i \in 1..Len(cards) |-> OfRank(cards[i], singleRank)]
    ELSE IF AtLeast(handStrength, 100) THEN
        LET pairRank == FindRank(counts, 2)
        IN [i \in 1..Len(cards) |-> NotOfRank(cards[i], pairRank)]
    ELSE
        \* the first card of the maximal rank is kept, the others are drawn
        LET ranks == Ranks(cards)
            isMax(i) == \A j \in 1..Len(ranks) : ranks[j] <= ranks[i]
        IN [i \in 1..Len(cards) |->
              ~(isMax(i) /\ \A j \in 1..(i - 1) : ~isMax(j))]

(***************************************************************************)
(* GameInfo snapshots                                                      *)
(***************************************************************************)
\* a player's round state; betPoint and cards may be absent
Round(bp, cs) == [betPoint |-> bp, cards |-> cs]

\* an entry of data.players; round may be absent
Player(pt, rd) == [point |-> pt, round |-> rd]

\* data.players[nm]: an option
Lookup(players, nm) == IF nm \in DOMAIN players THEN Some(players[nm]) ELSE None

\* the hand of the repository's tests: ace high, no pair
TestCards ==
    << Card("Clubs", 1), Card("Diamonds", 7), Card("Spades", 6),
       Card("Spades", 9), Card("Clubs", 8) >>

\* the snapshot of the repository's tests (the fields the hooks read)
PlayerTestGameData ==
    [ currentRound |-> 1,
      pot |-> 0,
      minBetPoint |-> 0,
      winner |-> None,
      players |->
        ( "Player1" :> Player(37600, Some(Round(Some(0), Some(<<>>))))
          @@ "team2" :> Player(20000, Some(Round(Some(0), Some(<<>>)))) ) ]

(***************************************************************************)
(* Return values of the hooks                                              *)
(***************************************************************************)
RetNumber(n) == [kind |-> "number", num |-> n, mask |-> <<>>]
RetArray(m) == [kind |-> "array", num |-> 0, mask |-> m]
RetVoid == [kind |-> "undefined", num |-> 0, mask |-> <<>>]
\* the call did not return: reading a property of undefined throws TypeError
Thrown == [kind |-> "TypeError", num |-> 0, mask |-> <<>>]

\* what a call produces: its return value and the strength it computed (logged)
Outcome(r, st) == [ret |-> r, strength |-> st]

MathMin(a, b) == IF a <= b THEN a ELSE b

(***************************************************************************)
(* decideBetPoint and drawCard                                             *)
(***************************************************************************)
\* a policy that folds one pair already at half the pot and calls with a
\* weak hand up to a tenth of the pot
BetAmount_Inclusive(myHandStrength, data, diff, stack) ==
    IF AtLeast(myHandStrength, 200) THEN
        IF data.minBetPoint = 0 THEN data.pot \div 2
        ELSE MathMin(stack, data.minBetPoint * 2)
    ELSE IF AtLeast(myHandStrength, 100) THEN
        IF 2 * data.minBetPoint >= data.pot THEN -1 ELSE 0
    ELSE IF data.minBetPoint = 0 THEN 0
    ELSE IF 10 * diff <= data.pot THEN 0
    ELSE -1

\* a policy whose raise is not capped by the stack
BetAmount_Uncapped(myHandStrength, data, diff, stack) ==
    IF AtLeast(myHandStrength, 200) THEN
        IF data.minBetPoint = 0 THEN data.pot \div 2
        ELSE data.minBetPoint * 2
    ELSE IF AtLeast(myHandStrength, 100) THEN
        IF 2 * data.minBetPoint > data.pot THEN -1 ELSE 0
    ELSE IF data.minBetPoint = 0 THEN 0
    ELSE IF 10 * diff < data.pot THEN 0
    ELSE -1

\* the amount chosen once the strength, diff and stack are known
BetAmount(myHandStrength, data, diff, stack) ==
    IF AtLeast(myHandStrength, 200) THEN
        IF data.minBetPoint = 0 THEN data.pot \div 2
        ELSE MathMin(stack, data.minBetPoint * 2)
    ELSE IF AtLeast(myHandStrength, 100) THEN
        IF 2 * data.minBetPoint > data.pot THEN -1 ELSE 0
    ELSE IF data.minBetPoint = 0 THEN 0
    ELSE IF 10 * diff < data.pot THEN 0
    ELSE -1

decideBetPoint(nm, data) ==
    LET self == Lookup(data.players, nm)
    IN
    IF ~IsSome(self) THEN Outcome(RetNumber(-1), None)
    ELSE IF ~IsSome(Get(self).round) THEN Outcome(Thrown, None)  \* self.round.cards
    ELSE
    LET rnd == Get(Get(self).round)
        myHandStrength == evaluateHand(rnd.cards)
        diff == data.minBetPoint - (IF IsSome(rnd.betPoint) THEN Get(rnd.betPoint) ELSE 0)
        stack == Get(self).point - diff
    IN Outcome(RetNumber(BetAmount(myHandStrength, data, diff, stack)),
               Some(myHandStrength))

drawCard(nm, data) ==
    LET self == Lookup(data.players, nm)
    IN
    IF IsSome(self) /\ ~IsSome(Get(self).round) THEN Outcome(Thrown, None)  \* self?.round.cards
    ELSE
    LET cards == IF IsSome(self) /\ IsSome(Get(Get(self).round).cards)
                 THEN Get(Get(Get(self).round).cards)
                 ELSE <<>>
        myHandStrength == evaluateHand(Some(cards))
    IN Outcome(RetArray(decideDraw(cards, myHandStrength)), Some(myHandStrength))

(***************************************************************************)
(* startRound and endRound: the new value of the counter each one writes   *)
(***************************************************************************)
\* a start that counts on from the snapshot's round
startRound_Next(data) == data.currentRound + 1

startRound(data) == data.currentRound

\* an end that counts every round as won
endRound_Always(w, nm, data) == w + 1

endRound(w, nm, data) == IF data.winner = Some(nm) THEN w + 1 ELSE w

(***************************************************************************)
(* Bounds and the inputs the engine passes                                 *)
(***************************************************************************)
MaxRound == 2       \* snapshot.currentRound ranges over 1..MaxRound
MaxWin == 2         \* rounds the session may win
MaxBet == 3         \* snapshot.minBetPoint ranges over 0..MaxBet
MaxBetPoint == 2    \* the own betPoint ranges over 0..MaxBetPoint

Pots == {0, 1, 4, 10, 30, 1000}
Points == {0, 2, 9, 20000}

\* one pair: the example hand of the specification
OnePairCards ==
    << Card("Clubs", 7), Card("Diamonds", 7), Card("Spades", 3),
       Card("Spades", 9), Card("Hearts", 12) >>

TwoPairCards ==
    << Card("Clubs", 7), Card("Hearts", 3), Card("Diamonds", 7),
       Card("Spades", 3), Card("Hearts", 12) >>

ThreeCards ==
    << Card("Clubs", 1), Card("Hearts", 5), Card("Diamonds", 1),
       Card("Spades", 1), Card("Hearts", 12) >>

\* the ace-low straight
StraightCards ==
    << Card("Clubs", 4), Card("Hearts", 3), Card("Diamonds", 1),
       Card("Spades", 5), Card("Hearts", 2) >>

FullHouseCards ==
    << Card("Clubs", 13), Card("Hearts", 13), Card("Diamonds", 2),
       Card("Spades", 13), Card("Hearts", 2) >>

\* hands the engine shows during play: complete, empty (before the deal), short
SampleHands ==
    { TestCards, OnePairCards, TwoPairCards, ThreeCards, StraightCards,
      FullHouseCards, <<>>, SubSeq(TestCards, 1, 3) }

Options(S) == {None} \cup {Some(v) : v \in S}

Others == [n \in {"Player1"} |-> PlayerTestGameData.players[n]]

\* data.players with the own entry e
WithOwn(e) == Others @@ ("team2" :> e)

Game(r, w, p, m, pm) ==
    [currentRound |-> r, pot |-> p, minBetPoint |-> m, winner |-> w, players |-> pm]

(***************************************************************************)
(* Inputs of the session: every hook may be called with every one of them  *)
(***************************************************************************)
\* pot, minBetPoint and players of the snapshots the session is driven with
SessionTables ==
    { <<0, 0, PlayerTestGameData.players>>,
      <<0, 0, Others>>,
      <<30, 3, Others>>,
      <<0, 0, WithOwn(Player(9, None))>>,
      <<30, 3, WithOwn(Player(9, Some(Round(None, None))))>>,
      <<30, 3, WithOwn(Player(9, Some(Round(Some(0), Some(TestCards)))))>>,
      <<30, 3, WithOwn(Player(9, Some(Round(Some(1), Some(OnePairCards)))))>>,
      <<30, 0, WithOwn(Player(9, Some(Round(Some(0), Some(TwoPairCards)))))>>,
      <<4, 3, WithOwn(Player(2, Some(Round(None, Some(StraightCards)))))>> }

Winners == Options({"team2", "Player1"})

Snapshots ==
    { Game(r, w, t[1], t[2], t[3]) :
        r \in 1..MaxRound, w \in Winners, t \in SessionTables }

(***************************************************************************)
(* Inputs of the decisions bet and draw take                               *)
(***************************************************************************)
OwnRounds == [betPoint : Options(0..MaxBetPoint), cards : Options(SampleHands)]
OwnPlayers == [point : Points, round : Options(OwnRounds)]
PlayerMaps == {Others} \cup {WithOwn(e) : e \in OwnPlayers}

DecisionSnapshots ==
    { Game(1, None, p, m, pm) : p \in Pots, m \in 0..MaxBet, pm \in PlayerMaps }

(***************************************************************************)
(* Inputs of evaluateHand: every hand of five cards of a deck that holds   *)
(* every category, and hands that are absent or not of five cards          *)
(***************************************************************************)
\* Spades of the ranks of both kinds of straight, aces and kings of all
\* suits, a second deuce and a second ten
Deck ==
    << Card("Spades", 10), Card("Hearts", 1), Card("Spades", 2),
       Card("Spades", 13), Card("Diamonds", 1), Card("Spades", 5),
       Card("Spades", 11), Card("Clubs", 1), Card("Spades", 3),
       Card("Hearts", 13), Card("Spades", 12), Card("Spades", 4),
       Card("Spades", 1), Card("Diamonds", 13), Card("Clubs", 13),
       Card("Hearts", 2), Card("Diamonds", 10) >>

\* the cards at the positions S of the deck, in deck order
Dealt(S) == LET ks == KeysAsc(S) IN [i \in 1..Len(ks) |-> Deck[ks[i]]]

FiveCardHands == { Dealt(S) : S \in {T \in SUBSET (1..Len(Deck)) : Cardinality(T) = 5} }

OtherHands ==
    {None} \cup { Some(Dealt(1..n)) : n \in {0, 1, 2, 3, 4, 6} }

EvalSnapshots ==
    { Game(1, None, 0, 0, WithOwn(Player(20000, Some(Round(Some(0), h))))) :
        h \in OtherHands \cup {Some(c) : c \in FiveCardHands} }

\* the own cards of a snapshot: an option
OwnCards(data) ==
    LET self == Lookup(data.players, "team2")
    IN IF IsSome(self) /\ IsSome(Get(self).round)
       THEN Get(Get(self).round).cards ELSE None

(***************************************************************************)
(* The session                                                             *)
(***************************************************************************)
VARIABLES
    id,         \* this.id
    name,       \* this.name
    round,      \* this.round
    win,        \* this.win
    hook,       \* the call made last: "new", "start", "bet", "draw", "end",
                \* or "evaluateHand" for a direct call of that method
    snapshot,   \* the GameInfo passed to that call
    ret,        \* what that call returned
    strength,   \* the hand strength that call computed, if any
    ownEnds,    \* history: the end calls so far whose winner was this.name
    repeated,   \* history: the last call repeated the call before it
                \* (the same hook with the same snapshot)
    peer        \* a second session of the same name, new JsPlayer('2', 'team2'):
                \* its round and win, its last call, the snapshot and the result

vars ==
    <<id, name, round, win, hook, snapshot, ret, strength, ownEnds, repeated, peer>>

\* the call of hook h with data comes right after the same call
Again(h, data) == hook = h /\ snapshot = data

\* new JsPlayer('1', 'team2'), about to be called with data
Constructed(data) ==
    /\ id = "1"
    /\ name = "team2"
    /\ round = 0
    /\ win = 0
    /\ hook = "new"
    /\ snapshot = data
    /\ ret = RetVoid
    /\ strength = None
    /\ ownEnds = 0
    /\ repeated = FALSE
    /\ peer = [round |-> 0, win |-> 0, hook |-> "new", snapshot |-> data,
               ret |-> RetVoid]

Init == Constructed(PlayerTestGameData)

\* a start that counts its own calls instead of taking the snapshot's round
Start_Counting(data) ==
    /\ round' = IF round < MaxRound THEN round + 1 ELSE round
    /\ hook' = "start"
    /\ repeated' = Again("start", data)
    /\ snapshot' = data
    /\ ret' = RetVoid
    /\ strength' = None
    /\ UNCHANGED <<id, name, win, ownEnds, peer>>

Start(data) ==
    /\ round' = startRound(data)
    /\ hook' = "start"
    /\ repeated' = Again("start", data)
    /\ snapshot' = data
    /\ ret' = RetVoid
    /\ strength' = None
    /\ UNCHANGED <<id, name, win, ownEnds, peer>>

\* a bet that folds once the session has won a round
Bet_AfterWin(data) ==
    LET o == decideBetPoint(name, data)
    IN /\ ret' = IF win > 0 THEN RetNumber(-1) ELSE o.ret
       /\ strength' = o.strength
       /\ hook' = "bet"
       /\ repeated' = Again("bet", data)
       /\ snapshot' = data
       /\ UNCHANGED <<id, name, round, win, ownEnds, peer>>

Bet(data) ==
    LET o == decideBetPoint(name, data)
    IN /\ ret' = o.ret
       /\ strength' = o.strength
       /\ hook' = "bet"
       /\ repeated' = Again("bet", data)
       /\ snapshot' = data
       /\ UNCHANGED <<id, name, round, win, ownEnds, peer>>

Draw(data) ==
    LET o == drawCard(name, data)
    IN /\ ret' = o.ret
       /\ strength' = o.strength
       /\ hook' = "draw"
       /\ repeated' = Again("draw", data)
       /\ snapshot' = data
       /\ UNCHANGED <<id, name, round, win, ownEnds, peer>>

End(data) ==
    /\ data.winner = Some(name) => win < MaxWin
    /\ win' = endRound(win, name, data)
    /\ ownEnds' = IF data.winner = Some(name) THEN ownEnds + 1 ELSE ownEnds
    /\ hook' = "end"
    /\ repeated' = Again("end", data)
    /\ snapshot' = data
    /\ ret' = RetVoid
    /\ strength' = None
    /\ UNCHANGED <<id, name, round, peer>>

\* a direct call of the method evaluateHand with the own cards of data
Evaluate(data) ==
    /\ strength' = Some(evaluateHand(OwnCards(data)))
    /\ hook' = "evaluateHand"
    /\ repeated' = Again("evaluateHand", data)
    /\ snapshot' = data
    /\ ret' = RetVoid
    /\ UNCHANGED <<id, name, round, win, ownEnds, peer>>

Next ==
    \/ \E data \in Snapshots : Start(data)
    \/ \E data \in Snapshots : Bet(data)
    \/ \E data \in Snapshots : Draw(data)
    \/ \E data \in Snapshots : End(data)

\* the session driven by the engine
Spec == Init /\ [][Next]_vars

\* bet and draw as functions of the snapshot they are given
InitPolicy == \E data \in DecisionSnapshots : Constructed(data)

NextPolicy ==
    \/ Bet(snapshot)
    \/ Draw(snapshot)

SpecPolicy == InitPolicy /\ [][NextPolicy]_vars

\* evaluateHand as a function of the hand it is given
InitEval == \E data \in EvalSnapshots : Constructed(data)

NextEval ==
    \/ Evaluate(snapshot)
    \/ Draw(snapshot)

SpecEval == InitEval /\ [][NextEval]_vars

(***************************************************************************)
(* Two sessions of the same name, each driven on its own                   *)
(***************************************************************************)
\* the fields of the first session
session == <<id, name, round, win, hook, snapshot, ret, strength, ownEnds, repeated>>

\* a round the session wins with two pair and no bet to meet, a round
\* another player wins against its pair, and a snapshot without the own round
PairSnapshots ==
    { Game(1, Some("team2"), 30, 0,
           WithOwn(Player(9, Some(Round(Some(0), Some(TwoPairCards)))))),
      Game(MaxRound, Some("Player1"), 30, 3,
           WithOwn(Player(9, Some(Round(Some(1), Some(OnePairCards)))))),
      Game(MaxRound, None, 30, 3, WithOwn(Player(9, None))) }

PeerStart(data) ==
    /\ peer' = [peer EXCEPT !.round = startRound(data), !.hook = "start",
                            !.snapshot = data, !.ret = RetVoid]
    /\ UNCHANGED session

PeerBet(data) ==
    /\ peer' = [peer EXCEPT !.hook = "bet", !.snapshot = data,
                            !.ret = decideBetPoint(name, data).ret]
    /\ UNCHANGED session

PeerDraw(data) ==
    /\ peer' = [peer EXCEPT !.hook = "draw", !.snapshot = data,
                            !.ret = drawCard(name, data).ret]
    /\ UNCHANGED session

PeerEnd(data) ==
    /\ data.winner = Some(name) => peer.win < MaxWin
    /\ peer' = [peer EXCEPT !.win = endRound(peer.win, name, data),
                            !.hook = "end", !.snapshot = data, !.ret = RetVoid]
    /\ UNCHANGED session

InitPair == \E data \in PairSnapshots : Constructed(data)

NextPair ==
    \/ \E data \in PairSnapshots : Start(data)
    \/ \E data \in PairSnapshots : Bet(data)
    \/ \E data \in PairSnapshots : Draw(data)
    \/ \E data \in PairSnapshots : End(data)
    \/ \E data \in PairSnapshots : PeerStart(data)
    \/ \E data \in PairSnapshots : PeerBet(data)
    \/ \E data \in PairSnapshots : PeerDraw(data)
    \/ \E data \in PairSnapshots : PeerEnd(data)

SpecPair == InitPair /\ [][NextPair]_vars

(***************************************************************************)
(* Properties of the session (specification Spec)                          *)
(***************************************************************************)
\* what the snapshot of the last call says about the own player
OwnEntry == Lookup(snapshot.players, name)
OwnRound == IF IsSome(OwnEntry) THEN Get(OwnEntry).round ELSE None
OwnWinner == snapshot.winner = Some(name)

\* C1: every end call whose winner is the session's name adds exactly 1 to
\* win and no other call changes win, so that win always equals the number
\* of end calls made so far whose winner was the own name.
C1_WinCountsOwnEnds == win = ownEnds

\* two rounds won, and then an end call with another winner
C1_Witness == hook = "end" /\ ~OwnWinner /\ win = 2 /\ ownEnds = 2

\* C2: a fresh session has round = 0 and win = 0; start sets round to the
\* snapshot's currentRound and leaves win, id and name alone; end leaves
\* round, id and name alone; bet and draw leave round, win, id and name alone.
C2_Frame ==
    /\ [](hook = "new" => round = 0 /\ win = 0)
    /\ [][ /\ hook' = "start" =>
                /\ round' = snapshot'.currentRound
                /\ win' = win /\ id' = id /\ name' = name
           /\ hook' = "end" =>
                round' = round /\ id' = id /\ name' = name
           /\ hook' \in {"bet", "draw"} =>
                round' = round /\ win' = win /\ id' = id /\ name' = name
         ]_vars

\* a bet on a snapshot of round 1 made by a session in round 2 with one win
C2_Witness ==
    /\ hook = "bet" /\ snapshot.currentRound = 1
    /\ round = 2 /\ win = 1 /\ id = "1" /\ name = "team2"

\* the own hand of the last snapshot is missing or empty, and the lookup of
\* the cards itself did not fail
NoOwnHand ==
    \/ ~IsSome(OwnEntry)
    \/ /\ IsSome(OwnRound)
       /\ Get(OwnRound).cards \in {None, Some(<<>>)}

\* sequences of five booleans of which exactly one is FALSE
KeepOne(m) ==
    /\ Len(m) = 5
    /\ Cardinality({i \in 1..5 : m[i] = FALSE}) = 1
    /\ Cardinality({i \in 1..5 : m[i] = TRUE}) = 4

\* C3: when the own entry is missing from the snapshot's players, or its
\* cards are absent or empty, draw takes the strength to be 0 and returns
\* five booleans: one false and four true.
C3_DrawWithoutHand ==
    (hook = "draw" /\ NoOwnHand) =>
        /\ strength = Some(Zero)
        /\ ret.kind = "array"
        /\ KeepOne(ret.mask)

\* C4: no hook throws, whatever is missing from the snapshot; bet returns
\* -1 when the own round state is absent; a missing betPoint counts as 0
\* and a missing or short hand as strength 0.
C4_NoHookThrows ==
    /\ ret.kind # "TypeError"
    /\ (hook = "bet" /\ ~IsSome(OwnRound)) => ret = RetNumber(-1)
    /\ (hook \in {"bet", "draw"} /\ IsSome(OwnRound)
            /\ (~IsSome(Get(OwnRound).cards) \/ Len(Get(Get(OwnRound).cards)) < 5))
        => strength = Some(Zero)

\* C5, as claimed: a hook called twice in a row with the same snapshot
\* leaves round and win as the first call left them and returns the same.
C5_Idempotent ==
    [][repeated' => round' = round /\ win' = win /\ ret' = ret]_vars

\* C5, amended: the same, except that a repeated end call whose winner is
\* the own name adds 1 to win again.
C5_IdempotentButOwnEnd ==
    [][repeated' =>
        /\ round' = round
        /\ ret' = ret
        /\ win' = IF hook' = "end" /\ snapshot'.winner = Some(name)
                  THEN win + 1 ELSE win
      ]_vars

\* the same own-winner end call made twice: two wins
C5_Witness == repeated /\ hook = "end" /\ OwnWinner /\ win = 2

(***************************************************************************)
(* Properties of evaluateHand (specification SpecEval)                     *)
(***************************************************************************)
\* the hand of the last call is a hand of five cards
FiveCards(cards) == IsSome(cards) /\ Len(Get(cards)) = 5

Evaluated == hook = "evaluateHand" /\ IsSome(strength)

Categories == {0, 100, 200, 300, 400, 500, 600, 700, 800, 900}

\* a tie-breaker 0.d1...d10: ten decimal digits after the point, so that
\* 0 <= tie-breaker < 1
TieBreakerDigits(f) == Len(f) = 10 /\ \A i \in 1..10 : f[i] \in 0..9

\* C6: for a hand of five distinct cards evaluateHand returns a category in
\* {0, 100, ..., 900} plus a tie-breaker in [0, 1), a value in [0, 901);
\* for an absent hand or one not of five cards it returns exactly 0.
C6_StrengthRange ==
    Evaluated =>
        LET s == Get(strength)
        IN IF FiveCards(OwnCards(snapshot))
           THEN /\ s.whole \in Categories
                /\ TieBreakerDigits(s.frac)
                /\ ~NumLess(s, Zero)
                /\ NumLess(s, Strength(901, <<>>))
           ELSE NumEq(s, Zero)

\* the strongest hand, a royal straight flush: 900.1413121110
C6_Witness ==
    /\ Evaluated /\ FiveCards(OwnCards(snapshot))
    /\ Get(strength) = Strength(900, <<1, 4, 1, 3, 1, 2, 1, 1, 1, 0>>)

\* the category of five cards by the rules of poker, in priority order
Category(cs) ==
    LET rankSet == {toRank(cs[i]) : i \in 1..5}
        mult(r) == Cardinality({i \in 1..5 : toRank(cs[i]) = r})
        flush == Cardinality({cs[i].suit : i \in 1..5}) = 1
        straight == \/ \E lo \in 2..10 : rankSet = lo..(lo + 4)
                    \/ rankSet = {2, 3, 4, 5, 14}
    IN IF straight /\ flush /\ {13, 14} \subseteq rankSet THEN 900
       ELSE IF straight /\ flush THEN 800
       ELSE IF \E r \in rankSet : mult(r) = 4 THEN 700
       ELSE IF \E r, q \in rankSet : mult(r) = 3 /\ mult(q) = 2 THEN 600
       ELSE IF flush THEN 500
       ELSE IF straight THEN 400
       ELSE IF \E r \in rankSet : mult(r) = 3 THEN 300
       ELSE IF \E r, q \in rankSet : r # q /\ mult(r) = 2 /\ mult(q) = 2 THEN 200
       ELSE IF \E r \in rankSet : mult(r) = 2 THEN 100
       ELSE 0

\* every hand of the deck with its category and the strength it is given
StrengthTable ==
    { <<Category(h), evaluateHand(Some(h))>> : h \in FiveCardHands }

\* C7: the category part of the strength of five distinct cards is the
\* first rule that matches, in the order royal straight flush 900, straight
\* flush 800, four of a kind 700, full house 600, flush 500, straight 400,
\* three of a kind 300, two pair 200, one pair 100, else 0; and a hand of a
\* higher category is strictly stronger than any hand of a lower one.
C7_CategoryOrder ==
    (Evaluated /\ FiveCards(OwnCards(snapshot))) =>
        \A c \in {Category(Get(OwnCards(snapshot)))}, s \in {Get(strength)} :
           /\ s.whole = c
           /\ \A e \in StrengthTable :
                /\ e[1] < c => NumLess(e[2], s)
                /\ e[1] > c => NumLess(s, e[2])

\* the ace-low straight flush: a straight flush with an ace that is not royal
C7_Witness ==
    /\ Evaluated /\ FiveCards(OwnCards(snapshot))
    /\ {toRank(Get(OwnCards(snapshot))[i]) : i \in 1..5} = {2, 3, 4, 5, 14}
    /\ Get(strength).whole = 800

Permutations5 == {p \in [1..5 -> 1..5] : \A i, j \in 1..5 : p[i] = p[j] => i = j}

\* C8: the strength of five cards does not depend on their order.
C8_OrderIndependent ==
    (Evaluated /\ FiveCards(OwnCards(snapshot))) =>
        LET cs == Get(OwnCards(snapshot))
        IN \A p \in Permutations5 :
             evaluateHand(Some([i \in 1..5 |-> cs[p[i]]])) = Get(strength)

\* a straight dealt out of order: the ranks come 10, 14, 13, 11, 12
C8_Witness ==
    /\ Evaluated /\ FiveCards(OwnCards(snapshot))
    /\ [i \in 1..5 |-> toRank(Get(OwnCards(snapshot))[i])] = <<10, 14, 13, 11, 12>>
    /\ Get(strength).whole = 400

(***************************************************************************)
(* Properties of the betting policy (specification SpecPolicy)             *)
(***************************************************************************)
OwnBetPoint ==
    IF IsSome(OwnRound) /\ IsSome(Get(OwnRound).betPoint)
    THEN Get(Get(OwnRound).betPoint) ELSE 0

CallGap == snapshot.minBetPoint - OwnBetPoint
AvailableStack == Get(OwnEntry).point - CallGap

\* bet was called with a hand of strength >= 200
StrongBet == hook = "bet" /\ IsSome(strength) /\ AtLeast(Get(strength), 200)

\* the amount the claim gives for a strong hand
StrongAmount ==
    IF snapshot.minBetPoint = 0 THEN snapshot.pot \div 2
    ELSE MathMin(AvailableStack, snapshot.minBetPoint * 2)

\* C9, as claimed: with strength >= 200 bet returns floor(pot * 0.5) when
\* minBetPoint = 0 and min(availableStack, minBetPoint * 2) otherwise, and
\* in both cases the amount is at most availableStack.
C9_WithinStack ==
    StrongBet => ret = RetNumber(StrongAmount) /\ ret.num <= AvailableStack

\* C9, amended: the same amounts; the amount is at most availableStack
\* when minBetPoint is not 0 (the opening bet is not capped).
C9_RaiseWithinStack ==
    StrongBet =>
        /\ ret = RetNumber(StrongAmount)
        /\ snapshot.minBetPoint # 0 => ret.num <= AvailableStack

\* a raise that the stack caps, below twice the minimum bet
C9_Witness ==
    /\ StrongBet /\ snapshot.minBetPoint # 0
    /\ ret.num = AvailableStack /\ ret.num < snapshot.minBetPoint * 2

\* the paths on which the policy folds
FoldPath ==
    \/ ~IsSome(OwnEntry)
    \/ /\ IsSome(strength)
       /\ AtLeast(Get(strength), 100) /\ ~AtLeast(Get(strength), 200)
       /\ 2 * snapshot.minBetPoint > snapshot.pot
    \/ /\ IsSome(strength)
       /\ ~AtLeast(Get(strength), 100)
       /\ 10 * CallGap >= snapshot.pot

\* C10: with non-negative pot, minBetPoint, own point and own betPoint, bet
\* returns -1, 0 or a positive integer, never less than -1, and -1 only on
\* a path that folds.
C10_BetInMeaningSet ==
    (/\ hook = "bet" /\ ret.kind = "number"
     /\ snapshot.pot >= 0 /\ snapshot.minBetPoint >= 0
     /\ IsSome(OwnEntry) =>
            /\ Get(OwnEntry).point >= 0
            /\ IsSome(OwnRound) /\ IsSome(Get(OwnRound).betPoint)
            /\ OwnBetPoint >= 0)
    => /\ ret.num >= -1
       /\ ret.num = -1 => FoldPath

(***************************************************************************)
(* Properties of the draw decision (specification SpecEval)                *)
(***************************************************************************)
\* the number of cards of cs that have the rank of its i-th card
SameRank(cs, i) == Cardinality({j \in 1..5 : toRank(cs[j]) = toRank(cs[i])})

\* the i-th card of cs has the highest rank of the hand
Highest(cs, i) == \A j \in 1..5 : toRank(cs[j]) <= toRank(cs[i])

\* the mask the claim gives for the hand cs whose strength has integer part w
ClaimedMask(cs, w) ==
    [i \in 1..5 |->
        IF w >= 400 THEN FALSE
        ELSE IF w >= 300 THEN SameRank(cs, i) # 3
        ELSE IF w >= 200 THEN SameRank(cs, i) = 1
        ELSE IF w >= 100 THEN SameRank(cs, i) # 2
        ELSE ~Highest(cs, i)]

\* the number of cards the claim has discarded in each band
ClaimedDiscards(w) ==
    IF w >= 400 THEN 0
    ELSE IF w >= 300 THEN 2
    ELSE IF w >= 200 THEN 1
    ELSE IF w >= 100 THEN 3
    ELSE 4

\* C11: for a hand of five distinct cards draw returns five booleans aligned
\* with the hand: none true from a straight up, the 2 cards beside the three
\* of a kind, the kicker of two pair, the 3 cards beside the pair, and with
\* no pair the 4 cards other than the single highest one; never all five.
C11_DrawMask ==
    (hook = "draw" /\ FiveCards(OwnCards(snapshot))) =>
        \A cs \in {Get(OwnCards(snapshot))}, w \in {evaluateHand(OwnCards(snapshot)).whole} :
            /\ ret.kind = "array"
            /\ Len(ret.mask) = 5
            /\ ret.mask = ClaimedMask(cs, w)
            /\ Cardinality({i \in 1..5 : ret.mask[i]}) = ClaimedDiscards(w)

\* two pair (kings and aces) with the kicker in the middle of the hand
C11_Witness ==
    /\ hook = "draw" /\ FiveCards(OwnCards(snapshot))
    /\ Get(strength).whole = 200
    /\ ret.mask = <<FALSE, FALSE, TRUE, FALSE, FALSE>>

(***************************************************************************)
(* Properties of the tie-breaker (specification SpecEval)                  *)
(***************************************************************************)
RECURSIVE DescendingAt(_, _)
\* the ranks in the set of positions S of cs, the highest first
DescendingAt(cs, S) ==
    IF S = {} THEN <<>>
    ELSE LET m == CHOOSE i \in S : \A j \in S : toRank(cs[j]) <= toRank(cs[i])
         IN <<toRank(cs[m])>> \o DescendingAt(cs, S \ {m})

\* the ranks of a hand of five cards, the highest first
Descending(cs) == DescendingAt(cs, 1..5)

\* a comes after b in the lexicographic order of rank sequences of length 5
LexGreater(a, b) ==
    \E i \in 1..5 : a[i] > b[i] /\ \A j \in 1..(i - 1) : a[j] = b[j]

\* every hand of the deck: its category, its ranks from the highest down
\* and the strength it is given
RankTable ==
    { <<Category(h), Descending(h), evaluateHand(Some(h))>> : h \in FiveCardHands }

\* C12: of two hands of the same category the one whose ranks, compared
\* from the highest down, are greater is strictly stronger, and hands with
\* the same ranks are equally strong; the tie-breaker is made of one group
\* of two digits, 02..14, for each rank and is below 1.
C12_TieBreakOrder ==
    (Evaluated /\ FiveCards(OwnCards(snapshot))) =>
        \A c \in {Category(Get(OwnCards(snapshot)))},
           d \in {Descending(Get(OwnCards(snapshot)))},
           s \in {Get(strength)} :
            /\ TieBreakerDigits(s.frac)
            /\ \A k \in 1..5 :
                 /\ 10 * s.frac[2 * k - 1] + s.frac[2 * k] = d[k]
                 /\ d[k] \in 2..14
            /\ NumLess(Strength(0, s.frac), Strength(1, <<>>))
            /\ \A e \in RankTable :
                 e[1] = c =>
                    /\ LexGreater(d, e[2]) => NumLess(e[3], s)
                    /\ LexGreater(e[2], d) => NumLess(s, e[3])
                    /\ d = e[2] => NumEq(s, e[3])

\* a pair of deuces with ace, king, ten: the low pair counts last
C12_Witness ==
    /\ Evaluated /\ FiveCards(OwnCards(snapshot))
    /\ Get(strength) = Strength(100, <<1, 4, 1, 3, 1, 0, 0, 2, 0, 2>>)

(***************************************************************************)
(* Properties of the betting policy below two pair (SpecPolicy)            *)
(***************************************************************************)
\* bet was called with a hand of strength below 200
WeakBet == hook = "bet" /\ IsSome(strength) /\ ~AtLeast(Get(strength), 200)

\* the answer the claim gives for a hand of strength below 200
WeakAmount ==
    IF AtLeast(Get(strength), 100)
    THEN IF 2 * snapshot.minBetPoint > snapshot.pot THEN -1 ELSE 0
    ELSE IF snapshot.minBetPoint = 0 THEN 0
    ELSE IF 10 * CallGap < snapshot.pot THEN 0
    ELSE -1

SameDecision ==
    hook \in {"bet", "draw"} /\ peer.hook = hook /\ peer.snapshot = snapshot

====
